---- MODULE Spec2Model ----
(***************************************************************************)
(* State-machine model of backend/index.js: an Express API over a          *)
(* PostgreSQL store (users, reviews, ratings), bcrypt password hashes and  *)
(* JWT bearer tokens.                                                      *)
(*                                                                         *)
(* Every route handler issues at most one SQL statement (the three CREATE  *)
(* TABLE statements of /create-tables travel as one simple query, which    *)
(* the store runs as one implicit transaction) and keeps no in-process     *)
(* state between requests, so an interleaving of concurrent handlers is a  *)
(* serialisation of their statements: one action per request.              *)
(*                                                                         *)
(* A handler is an operator from the request and the state it meets to    *)
(* its outcomes: the store and the issued tokens it leaves and the         *)
(* response it sends.  The actions apply the handlers; the properties      *)
(* read the outcomes of every request in every reachable state.            *)
(*                                                                         *)
(* Time is a discrete clock that both jwt and CURRENT_TIMESTAMP read; one  *)
(* unit is one hour.  Several requests may be served within one clock      *)
(* value: timestamps have finite resolution and the pool serves requests   *)
(* on concurrent connections.                                              *)
(***************************************************************************)
EXTENDS Integers, Sequences, FiniteSets, TLC

VARIABLES db, now, tokens

vars == <<db, now, tokens>>

----------------------------------------------------------------------------
(* Bounds of the model *)

MaxReviewSeq == 2
MaxTime == 3
MaxTokens == 1

----------------------------------------------------------------------------
(* Program constants *)

VarcharLimit == 100
SaltRounds == 10
TokenTTL == 2
JWT_SECRET == "JWT_SECRET"

----------------------------------------------------------------------------
(* JSON values of a request body: a tagged character sequence *)

Str(s) == [t |-> "string", v |-> s]
Num(s) == [t |-> "number", v |-> s]
Undefined == [t |-> "undefined", v |-> <<>>]

\* JavaScript truthiness, as used by  !email || !password || !name  and  !content
Truthy(x) ==
    CASE x.t = "undefined" -> FALSE
      [] x.t = "string" -> x.v # <<>>
      [] x.t = "number" -> x.v # <<"0">>

LongText == [i \in 1..(VarcharLimit + 1) |-> "x"]

Email1 == Str(<<"a", "@", "x">>)
Email2 == Str(<<"b", "@", "x">>)
Name1 == Str(<<"a", "n", "a">>)
Pass1 == Str(<<"p", "1">>)
Pass2 == Str(<<"p", "2">>)
Content1 == Str(<<"o", "k">>)

\* Request bodies of POST /register and POST /crear-admin: complete ones, one
\* with a field missing, one with an empty field, one whose name and one whose
\* email exceed the column width, one whose password is a JSON number
UserBodies ==
    {<<Name1, e, Pass1>> : e \in {Email1, Email2}}
        \cup {<<Undefined, Email1, Pass1>>, <<Name1, Email1, Str(<<>>)>>,
              <<Str(LongText), Email1, Pass1>>, <<Name1, Str(LongText), Pass1>>,
              <<Name1, Email1, Num(<<"7">>)>>}

\* Request bodies of POST /login: Pass2 is a password nobody registered
LoginBodies ==
    {<<e, p>> : e \in {Email1, Email2}, p \in {Pass1, Pass2}}
        \cup {<<Undefined, Pass1>>, <<Email1, Undefined>>, <<Email1, Num(<<"7">>)>>,
              <<Email1, Str(<<>>)>>}

Contents == {Undefined, Content1}

----------------------------------------------------------------------------
(* bcrypt *)

\* bcrypt.hash / bcrypt.compare reject data that is not a string
BcryptAccepts(data) == data.t = "string"

bcryptHash(data) == [rounds |-> SaltRounds, digest |-> data.v]

bcryptCompare(data, hash) == hash.digest = data.v

----------------------------------------------------------------------------
(* jsonwebtoken *)

NotJwt == [key |-> "none", id |-> 0, is_admin |-> FALSE, iat |-> 0, exp |-> 0]

jwtSign(id, isAdmin, key, t) ==
    [key |-> key, id |-> id, is_admin |-> isAdmin, iat |-> t, exp |-> t + TokenTTL]

\* jwt.verify with the expiry check left out
jwtVerifyIgnoreExpiration(tok, key, t) == tok.key = key

\* jwt.decode in place of jwt.verify: the signature is not checked
jwtDecodeOnly(tok, key, t) == tok.key # "none" /\ t < tok.exp

\* jwt.verify throws unless the signature matches the key and the token has not expired
jwtVerify(tok, key, t) == tok.key = key /\ t < tok.exp

\* A token signed with a key that is not the server's
Forged(t) == {jwtSign(1, TRUE, "other", t)}

\* An Authorization header, split on ' '; <<>> is the absent (or empty) header
NoHeader == <<>>

Headers(tks, t) ==
    {NoHeader, <<NotJwt>>, <<NotJwt, NotJwt>>}
        \cup {<<NotJwt, tk>> : tk \in tks \cup Forged(t)}

\* authHeader.split(' ')[1]
HeaderToken(hdr) == IF Len(hdr) >= 2 THEN hdr[2] ELSE NotJwt

\* verificarToken: 401 without header, 403 when jwt.verify throws, else next()
VerificarTokenStatus(hdr, t) ==
    IF hdr = NoHeader THEN 401
    ELSE IF ~jwtVerify(HeaderToken(hdr), JWT_SECRET, t) THEN 403
    ELSE 0

\* req.user = decoded
Decoded(hdr) == [id |-> HeaderToken(hdr).id, is_admin |-> HeaderToken(hdr).is_admin]

----------------------------------------------------------------------------
(* The store *)

EmptyDb ==
    [usersT |-> FALSE, users |-> {}, usersSeq |-> 0,
     reviewsT |-> FALSE, reviews |-> {}, reviewsSeq |-> 0,
     ratingsT |-> FALSE, ratingsFkReviews |-> FALSE]

\* CREATE TABLE without IF NOT EXISTS: the three tables are made anew
CreateTablesStoreAnew(s) ==
    [usersT |-> TRUE, users |-> {}, usersSeq |-> 0,
     reviewsT |-> TRUE, reviews |-> {}, reviewsSeq |-> 0,
     ratingsT |-> TRUE, ratingsFkReviews |-> TRUE]

\* The users table is made anew, the other two only if absent
CreateTablesStoreUsersAnew(s) ==
    [usersT |-> TRUE, users |-> {}, usersSeq |-> 0,
     reviewsT |-> TRUE,
     reviews |-> IF s.reviewsT THEN s.reviews ELSE {},
     reviewsSeq |-> IF s.reviewsT THEN s.reviewsSeq ELSE 0,
     ratingsT |-> TRUE,
     ratingsFkReviews |-> IF s.ratingsT THEN s.ratingsFkReviews ELSE TRUE]

\* CREATE TABLE IF NOT EXISTS users / reviews / ratings
CreateTablesStore(s) ==
    [usersT |-> TRUE,
     users |-> IF s.usersT THEN s.users ELSE {},
     usersSeq |-> IF s.usersT THEN s.usersSeq ELSE 0,
     reviewsT |-> TRUE,
     reviews |-> IF s.reviewsT THEN s.reviews ELSE {},
     reviewsSeq |-> IF s.reviewsT THEN s.reviewsSeq ELSE 0,
     ratingsT |-> TRUE,
     ratingsFkReviews |-> IF s.ratingsT THEN s.ratingsFkReviews ELSE TRUE]

\* DROP TABLE IF EXISTS reviews CASCADE: the table, its rows, its sequence and
\* the foreign key of ratings that references it
DropReviewsStore(s) ==
    [s EXCEPT !.reviewsT = FALSE, !.reviews = {}, !.reviewsSeq = 0,
              !.ratingsFkReviews = FALSE]

UserIds(s) == {u.id : u \in s.users}

UsersByEmail(s, email) ==
    IF email.t = "undefined" THEN {} ELSE {u \in s.users : u.email = email.v}

----------------------------------------------------------------------------
(* Requests and responses *)

NoReq ==
    [route |-> "none", hdr |-> NoHeader, name |-> Undefined, email |-> Undefined,
     password |-> Undefined, content |-> Undefined, id |-> 0]

NoRes == [status |-> 0, id |-> 0, token |-> NotJwt, rows |-> <<>>]

Status(code) == [NoRes EXCEPT !.status = code]

\* What a handler leaves behind: the store, the issued tokens, the response
Outcome(s, tks, response) == [db |-> s, tokens |-> tks, res |-> response]

----------------------------------------------------------------------------
(* Handlers *)

\* GET /create-tables
CreateTablesOutcomes(s, tks) == {Outcome(CreateTablesStore(s), tks, Status(200))}

\* GET /drop-reviews
DropReviewsOutcomes(s, tks) == {Outcome(DropReviewsStore(s), tks, Status(200))}

\* The email column without UNIQUE
UniqueEmailUnchecked(s, emailText) == FALSE

\* The users.email UNIQUE constraint
UniqueEmailViolated(s, emailText) == \E u \in s.users : u.email = emailText

\* The VARCHAR(100) columns name and email
VarcharViolated(text) == Len(text) > VarcharLimit

\* INSERT INTO users (...) RETURNING id, ...  The id is the next value of the
\* SERIAL sequence; the values rejected rows consume only leave gaps and are
\* not modelled.
InsertUser(s, name, email, hash, isAdmin) ==
    LET drawn == [s EXCEPT !.usersSeq = s.usersSeq + 1]
        row == [id |-> s.usersSeq + 1, name |-> name.v, email |-> email.v,
                password |-> hash, is_admin |-> isAdmin]
    IN  IF ~s.usersT
        THEN [db |-> s, status |-> 500, id |-> 0]
        ELSE IF VarcharViolated(name.v) \/ VarcharViolated(email.v)
        THEN [db |-> s, status |-> 500, id |-> 0]
        ELSE IF UniqueEmailViolated(s, email.v)
        THEN [db |-> s, status |-> 500, id |-> 0]
        ELSE [db |-> [drawn EXCEPT !.users = s.users \cup {row}],
              status |-> 201, id |-> row.id]

\* The body shared by POST /register and POST /crear-admin
CreateUserOutcomes(s, tks, name, email, password, isAdmin) ==
    IF ~Truthy(email) \/ ~Truthy(password) \/ ~Truthy(name)
    THEN {Outcome(s, tks, Status(400))}
    ELSE IF ~BcryptAccepts(password)
    THEN {Outcome(s, tks, Status(500))}
    ELSE LET o == InsertUser(s, name, email, bcryptHash(password), isAdmin)
         IN  {Outcome(o.db, tks, [Status(o.status) EXCEPT !.id = o.id])}

\* POST /register
RegisterOutcomes(s, tks, name, email, password) ==
    CreateUserOutcomes(s, tks, name, email, password, FALSE)

\* POST /crear-admin
CrearAdminOutcomes(s, tks, name, email, password) ==
    CreateUserOutcomes(s, tks, name, email, password, TRUE)

\* A token whose is_admin claim is not read from the user row
LoginTokenAdmin(user, t) == jwtSign(user.id, TRUE, JWT_SECRET, t)

\* The token POST /login signs
LoginToken(user, t) == jwtSign(user.id, user.is_admin, JWT_SECRET, t)

\* POST /login
LoginOutcomes(s, tks, t, email, password) ==
    IF ~s.usersT
    THEN {Outcome(s, tks, Status(500))}
    ELSE IF UsersByEmail(s, email) = {}
    THEN {Outcome(s, tks, Status(400))}
    ELSE LET user == CHOOSE u \in UsersByEmail(s, email) : TRUE
         IN  IF ~BcryptAccepts(password)
             THEN {Outcome(s, tks, Status(500))}
             ELSE IF ~bcryptCompare(password, user.password)
             THEN {Outcome(s, tks, Status(401))}
             ELSE {Outcome(s, tks \cup {LoginToken(user, t)},
                           [Status(200) EXCEPT !.id = user.id,
                                               !.token = LoginToken(user, t)])}

\* A fixed owner instead of the authenticated user
ReviewOwnerFirst(user) == 1

\* The user id POST /reviews inserts: req.user.id
ReviewOwner(user) == user.id

\* The reviews.user_id REFERENCES users(id) constraint
ForeignKeyViolated(s, userId) == userId \notin UserIds(s)

\* INSERT INTO reviews (user_id, content) ... RETURNING *
InsertReview(s, userId, content, t) ==
    LET drawn == [s EXCEPT !.reviewsSeq = s.reviewsSeq + 1]
        row == [id |-> s.reviewsSeq + 1, user_id |-> userId, content |-> content.v,
                created_at |-> t]
    IN  IF ~s.reviewsT
        THEN [db |-> s, status |-> 500, id |-> 0]
        ELSE IF ForeignKeyViolated(s, userId)
        THEN [db |-> s, status |-> 500, id |-> 0]
        ELSE [db |-> [drawn EXCEPT !.reviews = s.reviews \cup {row}],
              status |-> 201, id |-> row.id]

\* POST /reviews
PostReviewsOutcomes(s, tks, t, hdr, content) ==
    IF VerificarTokenStatus(hdr, t) # 0
    THEN {Outcome(s, tks, Status(VerificarTokenStatus(hdr, t)))}
    ELSE IF ~Truthy(content)
    THEN {Outcome(s, tks, Status(400))}
    ELSE LET o == InsertReview(s, ReviewOwner(Decoded(hdr)), content, t)
         IN  {Outcome(o.db, tks, [Status(o.status) EXCEPT !.id = o.id])}

\* FROM reviews r JOIN users u ON r.user_id = u.id
JoinedRows(s) ==
    {[id |-> p[1].id, content |-> p[1].content, created_at |-> p[1].created_at,
      user_name |-> p[2].name] :
        p \in {q \in s.reviews \X s.users : q[1].user_id = q[2].id}}

\* ORDER BY r.created_at ASC
OrderedAsc(a, b) == a.created_at <= b.created_at

\* ORDER BY r.created_at DESC: the relation between adjacent result rows
OrderedDesc(a, b) == a.created_at >= b.created_at

\* Every order of the rows that ORDER BY allows (rows of equal created_at
\* come in any order)
OrderBy(rows) ==
    {q \in [1..Cardinality(rows) -> rows] :
        /\ \A i, j \in 1..Cardinality(rows) : i # j => q[i] # q[j]
        /\ \A i \in 1..(Cardinality(rows) - 1) : OrderedDesc(q[i], q[i + 1])}

\* GET /reviews
GetReviewsOutcomes(s, tks) ==
    IF ~s.reviewsT \/ ~s.usersT
    THEN {Outcome(s, tks, Status(500))}
    ELSE {Outcome(s, tks, [Status(200) EXCEPT !.rows = q]) : q \in OrderBy(JoinedRows(s))}

\* GET /test-db
TestDbOutcomes(s, tks, t) == {Outcome(s, tks, [Status(200) EXCEPT !.id = t])}

\* The admin guard left out
AdminOnlySkipped(user) == TRUE

\* The guard of DELETE /reviews/:id: req.user.is_admin
AdminOnly(user) == user.is_admin

\* DELETE FROM reviews WHERE id = $1
DeleteReviewStore(s, reviewId) ==
    [s EXCEPT !.reviews = {r \in s.reviews : r.id # reviewId}]

\* DELETE /reviews/:id
DeleteReviewOutcomes(s, tks, t, hdr, reviewId) ==
    IF VerificarTokenStatus(hdr, t) # 0
    THEN {Outcome(s, tks, Status(VerificarTokenStatus(hdr, t)))}
    ELSE IF ~AdminOnly(Decoded(hdr))
    THEN {Outcome(s, tks, Status(403))}
    ELSE IF ~s.reviewsT
    THEN {Outcome(s, tks, Status(500))}
    ELSE {Outcome(DeleteReviewStore(s, reviewId), tks, Status(200))}

\* The route table
Outcomes(r, s, tks, t) ==
    CASE r.route = "GET /create-tables" -> CreateTablesOutcomes(s, tks)
      [] r.route = "POST /register" ->
            RegisterOutcomes(s, tks, r.name, r.email, r.password)
      [] r.route = "POST /login" -> LoginOutcomes(s, tks, t, r.email, r.password)
      [] r.route = "POST /reviews" -> PostReviewsOutcomes(s, tks, t, r.hdr, r.content)
      [] r.route = "GET /reviews" -> GetReviewsOutcomes(s, tks)
      [] r.route = "GET /test-db" -> TestDbOutcomes(s, tks, t)
      [] r.route = "DELETE /reviews/:id" ->
            DeleteReviewOutcomes(s, tks, t, r.hdr, r.id)
      [] r.route = "GET /drop-reviews" -> DropReviewsOutcomes(s, tks)
      [] r.route = "POST /crear-admin" ->
            CrearAdminOutcomes(s, tks, r.name, r.email, r.password)

----------------------------------------------------------------------------
(* The requests a client can send *)

UserRoutes == {"POST /register", "POST /crear-admin"}

PlainRoutes == {"GET /create-tables", "GET /reviews", "GET /test-db", "GET /drop-reviews"}

UserReq(route, b) ==
    [NoReq EXCEPT !.route = route, !.name = b[1], !.email = b[2], !.password = b[3]]

LoginReq(b) == [NoReq EXCEPT !.route = "POST /login", !.email = b[1], !.password = b[2]]

PostReviewsReq(hdr, content) ==
    [NoReq EXCEPT !.route = "POST /reviews", !.hdr = hdr, !.content = content]

DeleteReviewReq(hdr, reviewId) ==
    [NoReq EXCEPT !.route = "DELETE /reviews/:id", !.hdr = hdr, !.id = reviewId]

PlainReq(route) == [NoReq EXCEPT !.route = route]

\* The ids a client tries on DELETE /reviews/:id
ReviewIds == 1..MaxReviewSeq

----------------------------------------------------------------------------
(* The state machine *)

Init ==
    /\ db = EmptyDb
    /\ now = 0
    /\ tokens = {}

\* Within the bounds of the model
Bounded(o) ==
    /\ o.db.reviewsSeq <= MaxReviewSeq
    /\ Cardinality(o.tokens) <= MaxTokens

\* The server handles request r
Serve(r) ==
    /\ \E o \in Outcomes(r, db, tokens, now) :
            /\ Bounded(o)
            /\ db' = o.db
            /\ tokens' = o.tokens
    /\ UNCHANGED now

CreateTables == Serve(PlainReq("GET /create-tables"))

DropReviews == Serve(PlainReq("GET /drop-reviews"))

GetReviews == Serve(PlainReq("GET /reviews"))

TestDb == Serve(PlainReq("GET /test-db"))

Register == \E b \in UserBodies : Serve(UserReq("POST /register", b))

CrearAdmin == \E b \in UserBodies : Serve(UserReq("POST /crear-admin", b))

Login == \E b \in LoginBodies : Serve(LoginReq(b))

PostReviews ==
    \E hdr \in Headers(tokens, now), content \in Contents :
        Serve(PostReviewsReq(hdr, content))

DeleteReview ==
    \E hdr \in Headers(tokens, now), reviewId \in ReviewIds :
        Serve(DeleteReviewReq(hdr, reviewId))

\* The clock advances
Tick ==
    /\ now < MaxTime
    /\ now' = now + 1
    /\ UNCHANGED <<db, tokens>>

Next ==
    \/ CreateTables
    \/ DropReviews
    \/ Register
    \/ CrearAdmin
    \/ Login
    \/ PostReviews
    \/ GetReviews
    \/ TestDb
    \/ DeleteReview
    \/ Tick

Spec == Init /\ [][Next]_vars

----------------------------------------------------------------------------
(* Properties.  They read Outs(r), what the server does with request r in   *)
(* the current state, for the requests a client can send in that state.    *)

Outs(r) == Outcomes(r, db, tokens, now)

\* P holds of every request a client can send
EveryRequest(P(_)) ==
    /\ \A route \in UserRoutes, b \in UserBodies : P(UserReq(route, b))
    /\ \A b \in LoginBodies : P(LoginReq(b))
    /\ \A hdr \in Headers(tokens, now), content \in Contents :
            P(PostReviewsReq(hdr, content))
    /\ \A hdr \in Headers(tokens, now), reviewId \in ReviewIds :
            P(DeleteReviewReq(hdr, reviewId))
    /\ \A route \in PlainRoutes : P(PlainReq(route))

\* P holds of every request to a protected route that carries the header hdr
EveryProtectedRequest(hdr, P(_)) ==
    /\ \A content \in Contents : P(PostReviewsReq(hdr, content))
    /\ \A reviewId \in ReviewIds : P(DeleteReviewReq(hdr, reviewId))

\* The Authorization header "Bearer <tk>"
Bearer(tk) == <<NotJwt, tk>>

\* tk was issued by POST /login and its validity window has not elapsed
IssuedAndFresh(tk) == tk \in tokens /\ now - tk.iat < TokenTTL

\* The request carries a name, an email and a password
Complete(r) == Truthy(r.name) /\ Truthy(r.email) /\ Truthy(r.password)

\* ... and they are values the users table can hold
Storable(r) ==
    /\ Complete(r)
    /\ r.password.t = "string"
    /\ Len(r.name.v) <= VarcharLimit
    /\ Len(r.email.v) <= VarcharLimit

EmailUsed(r) == \E u \in db.users : u.email = r.email.v

NoTwoUsersShareAnEmail ==
    \A u, w \in db.users : u.email = w.email => u = w

\* The request added exactly one user row, with the request's email and the
\* returned id, which no earlier row had
AddsOneUser(r, o) ==
    /\ o.res.id \notin UserIds(db)
    /\ \E row \in o.db.users :
            /\ row.id = o.res.id
            /\ row.email = r.email.v
            /\ o.db.users = db.users \cup {row}
            /\ row \notin db.users

\* C1 as stated: no two users share an email; every registration that carries
\* name, email and password returns 201 with a new id when its email is unused,
\* and returns 500 and adds no row when its email is taken.
C1_RegistrationAsStated ==
    /\ NoTwoUsersShareAnEmail
    /\ \A route \in UserRoutes, b \in UserBodies :
            LET r == UserReq(route, b)
            IN  \A o \in Outs(r) :
                    Complete(r) =>
                        IF EmailUsed(r)
                        THEN o.res.status = 500 /\ o.db = db
                        ELSE o.res.status = 201 /\ AddsOneUser(r, o)

\* C1 amended: no two users share an email; a registration whose name, email
\* and password the users table can hold returns 201 with a new id and adds
\* one row when the users table exists and the email is unused, and returns
\* 500 and adds no row when the email is taken or the table does not exist.
C1_UniqueEmailRegistration ==
    /\ NoTwoUsersShareAnEmail
    /\ \A route \in UserRoutes, b \in UserBodies :
            LET r == UserReq(route, b)
            IN  \A o \in Outs(r) :
                    Storable(r) =>
                        IF db.usersT /\ ~EmailUsed(r)
                        THEN o.res.status = 201 /\ AddsOneUser(r, o)
                        ELSE o.res.status = 500 /\ o.db = db

\* Two registrations succeeded, and any further one meets a taken email
C1_Witness ==
    /\ Cardinality(db.users) = 2
    /\ \E b \in UserBodies :
            Storable(UserReq("POST /register", b)) /\ EmailUsed(UserReq("POST /register", b))

\* The supplied password does not match the stored hash (an absent or
\* non-string password matches no hash)
Mismatch(password, user) ==
    password.t # "string" \/ password.v # user.password.digest

\* C2: a login for an existing user's email with a password that does not
\* match the stored hash, an absent one included, yields 401 and no token.
C2_WrongPasswordYields401 ==
    \A b \in LoginBodies :
        LET r == LoginReq(b)
        IN  \A o \in Outs(r) :
                (\E u \in db.users : /\ r.email.t # "undefined"
                                     /\ u.email = r.email.v
                                     /\ Mismatch(r.password, u)) =>
                    /\ o.res.status = 401
                    /\ o.res.token = NotJwt
                    /\ o.tokens = tokens

\* C3: a token issued by POST /login is rejected by the protected routes once
\* more than the 2-hour window has elapsed since its issue: status 403, and the
\* store and the issued tokens unchanged.
C3_ExpiredTokenRejected ==
    \A tk \in tokens :
        now - tk.iat > TokenTTL =>
            LET Rejected(r) ==
                    \A o \in Outs(r) :
                        o.res.status = 403 /\ o.db = db /\ o.tokens = tokens
            IN  EveryProtectedRequest(Bearer(tk), Rejected)

\* A token older than its window is held by a client while reviews exist
C3_Witness ==
    /\ \E tk \in tokens : now - tk.iat > TokenTTL
    /\ db.reviews # {}

\* The review is among the rows of the response
Listed(reviewId, response) ==
    \E i \in 1..Len(response.rows) : response.rows[i].id = reviewId

\* C4: DELETE /reviews/:id with a valid token whose is_admin is not true is
\* rejected with 403, and the targeted review is listed by the GET /reviews
\* that follows.
C4_NonAdminDeleteRejected ==
    \A tk \in tokens, reviewId \in ReviewIds :
        (IssuedAndFresh(tk) /\ ~tk.is_admin) =>
            \A o \in Outs(DeleteReviewReq(Bearer(tk), reviewId)) :
                /\ o.res.status = 403
                /\ o.db = db
                /\ (\E row \in db.reviews : row.id = reviewId) =>
                        \A g \in Outcomes(PlainReq("GET /reviews"), o.db, o.tokens, now) :
                            g.res.status = 200 /\ Listed(reviewId, g.res)

\* A non-admin holds a valid token while a review exists
C4_Witness ==
    /\ \E tk \in tokens : IssuedAndFresh(tk) /\ ~tk.is_admin
    /\ db.reviews # {}

\* C5 as stated: adjacent rows of GET /reviews have strictly decreasing
\* created_at.
C5_StrictlyDescending ==
    \A o \in Outs(PlainReq("GET /reviews")) :
        \A i \in 1..(Len(o.res.rows) - 1) :
            o.res.rows[i].created_at > o.res.rows[i + 1].created_at

\* C5 amended: GET /reviews returns every review once, and no row has a
\* smaller created_at than the row after it (rows inserted within the same
\* timestamp have equal created_at and come in either order).
C5_Descending ==
    \A o \in Outs(PlainReq("GET /reviews")) :
        o.res.status = 200 =>
            /\ Len(o.res.rows) = Cardinality(db.reviews)
            /\ \A row \in db.reviews : Listed(row.id, o.res)
            /\ \A i \in 1..(Len(o.res.rows) - 1) :
                    o.res.rows[i].created_at >= o.res.rows[i + 1].created_at

\* Two reviews of different creation times are listed
C5_Witness ==
    /\ db.usersT /\ db.reviewsT
    /\ \E a, b \in db.reviews : a.created_at < b.created_at

\* The request added exactly one review row, owned by userId
AddsOneReview(o, userId) ==
    \E row \in o.db.reviews :
        /\ row \notin db.reviews
        /\ row.user_id = userId
        /\ row.id = o.res.id
        /\ o.db.reviews = db.reviews \cup {row}

\* A successful login returns a token that carries the id of the user whose
\* email and password the request gave
LoginTokenNamesUser ==
    \A b \in LoginBodies : \A o \in Outs(LoginReq(b)) :
        o.res.status = 200 =>
            /\ o.res.token \in o.tokens
            /\ \E u \in db.users :
                    /\ u.email = b[1].v
                    /\ u.password.digest = b[2].v
                    /\ u.id = o.res.token.id

\* C6 as stated: a token returned by POST /login, presented within its window
\* on POST /reviews with non-empty content, gets 201 and exactly one new review
\* owned by the user who logged in.
C6_TokenAuthorizesReviewAsStated ==
    /\ LoginTokenNamesUser
    /\ \A tk \in tokens, content \in Contents :
            (IssuedAndFresh(tk) /\ Truthy(content)) =>
                \A o \in Outs(PostReviewsReq(Bearer(tk), content)) :
                    o.res.status = 201 /\ AddsOneReview(o, tk.id)

\* C6 amended: ... gets 201 and exactly one new review owned by the user who
\* logged in while the reviews table exists; after GET /drop-reviews, until
\* GET /create-tables, it gets 500 and no review is inserted.
C6_TokenAuthorizesReview ==
    /\ LoginTokenNamesUser
    /\ \A tk \in tokens, content \in Contents :
            (IssuedAndFresh(tk) /\ Truthy(content)) =>
                \A o \in Outs(PostReviewsReq(Bearer(tk), content)) :
                    IF db.reviewsT
                    THEN o.res.status = 201 /\ AddsOneReview(o, tk.id)
                    ELSE o.res.status = 500 /\ o.db = db

\* The second user posted a review with a token that is still valid
C6_Witness ==
    \E tk \in tokens : \E row \in db.reviews :
        IssuedAndFresh(tk) /\ tk.id = 2 /\ row.user_id = tk.id

\* C7: on the protected routes a request without Authorization header gets
\* 401 and one whose token is invalid gets 403, neither changing the store; a
\* review is inserted only by a POST /reviews whose token was issued and is
\* fresh, and removed only by such a DELETE /reviews/:id or by /drop-reviews.
C7_ProtectedRoutesNeedToken ==
    LET Refused(r) ==
            \A o \in Outs(r) :
                /\ o.res.status = (IF r.hdr = NoHeader THEN 401 ELSE 403)
                /\ o.db = db
        Authorized(r) ==
            \A o \in Outs(r) :
                /\ ~(o.db.reviews \subseteq db.reviews) =>
                        /\ r.route = "POST /reviews"
                        /\ IssuedAndFresh(HeaderToken(r.hdr))
                /\ ~(db.reviews \subseteq o.db.reviews) =>
                        \/ /\ r.route = "DELETE /reviews/:id"
                           /\ IssuedAndFresh(HeaderToken(r.hdr))
                        \/ r.route = "GET /drop-reviews"
    IN  /\ \A hdr \in Headers(tokens, now) :
                (hdr = NoHeader \/ ~IssuedAndFresh(HeaderToken(hdr))) =>
                    EveryProtectedRequest(hdr, Refused)
        /\ EveryRequest(Authorized)

\* Reviews exist, inserted with the tokens issued so far
C7_Witness == db.reviews # {} /\ Cardinality(db.users) = 2

AllTablesExist(s) == s.usersT /\ s.reviewsT /\ s.ratingsT

\* GET /create-tables twice leaves what GET /create-tables once leaves
TwiceIsOnce(s) ==
    \A o \in CreateTablesOutcomes(s, tokens) :
        /\ o.res.status = 200
        /\ AllTablesExist(o.db)
        /\ \A p \in CreateTablesOutcomes(o.db, o.tokens) : p.db = o.db

\* C8: GET /create-tables leaves the store unchanged when the three tables
\* exist, and calling it twice yields the store calling it once yields, from
\* the current state and from the state GET /drop-reviews leaves.
C8_CreateTablesIdempotent ==
    /\ \A o \in CreateTablesOutcomes(db, tokens) : AllTablesExist(db) => o.db = db
    /\ TwiceIsOnce(db)
    /\ \A d \in DropReviewsOutcomes(db, tokens) : TwiceIsOnce(d.db)

\* The tables were created, filled, reviews dropped and created again
C8_Witness ==
    /\ AllTablesExist(db)
    /\ ~db.ratingsFkReviews
    /\ db.users # {}
    /\ db.reviews # {}

\* C9: every review row has exactly one owning user, and that user is a row
\* of the users table.
C9_ReviewHasOneOwner ==
    \A row \in db.reviews : Cardinality({u \in db.users : u.id = row.user_id}) = 1

\* Two users exist and the second one owns a review
C9_Witness ==
    /\ Cardinality(db.users) = 2
    /\ \E row \in db.reviews : row.user_id = 2

\* The is_admin claim of every token verificarToken accepts is the flag stored
\* for the token's user id
AcceptedClaimsAreStored ==
    \A hdr \in Headers(tokens, now) :
        VerificarTokenStatus(hdr, now) = 0 =>
            \E u \in db.users :
                u.id = Decoded(hdr).id /\ u.is_admin = Decoded(hdr).is_admin

\* POST /register creates non-admins and POST /crear-admin admins
FlagSetAtCreation ==
    \A route \in UserRoutes, b \in UserBodies :
        \A o \in Outs(UserReq(route, b)) :
            \A u \in o.db.users \ db.users :
                u.is_admin = (route = "POST /crear-admin")

\* C10: no request changes or deletes an existing user row, /register creates
\* non-admins and /crear-admin admins, and the is_admin claim of every token
\* verificarToken accepts equals the flag stored for the token's user id.
C10_AdminClaimIsCurrent ==
    /\ [](AcceptedClaimsAreStored /\ FlagSetAtCreation)
    /\ [][db.users \subseteq db'.users]_vars

\* An admin holds a token that verificarToken accepts, and a non-admin exists
C10_Witness ==
    /\ \E tk \in tokens : tk.is_admin /\ VerificarTokenStatus(Bearer(tk), now) = 0
    /\ \E u \in db.users : ~u.is_admin

====
